---- MODULE Spec2Model ----
(***************************************************************************)
(* State-machine model of the Locatex real-estate backend: the property    *)
(* catalog and its moderation workflow (controllers/properties.js,         *)
(* controllers/admin.js, models/Property) and the agent directory with its *)
(* embedded reviews (controllers/agents.js, models/Agent).                 *)
(*                                                                         *)
(* Each HTTP handler is one action.  The variable `last` records the       *)
(* request that was served last and the response it produced.              *)
(***************************************************************************)
EXTENDS Integers, Sequences, FiniteSets, TLC

\* ------------------------------------------------------------------ bounds
NumUsers == 3
NumProps == 1
MaxAgents == 1
MaxReviews == 2
MaxProfiles == 2
MaxTokens == 2
MaxClock == 2
MaxMessages == 2
MaxFavorites == 2

\* ------------------------------------------------------------ identities
Anon == 0
UserIds == 1..NumUsers
Callers == UserIds \cup {Anon}
PropIds == 1..NumProps
AgentIds == 1..MaxAgents

None == "none"
\* an ObjectId reference that was never set
NoUser == Anon
Now == "now"

VARIABLES
  users,        \* User collection: id -> [role, isActive]
  properties,   \* Property collection: id -> stored document
  nextPropId,   \* ObjectIds are fresh: the next id Property.create hands out
  agents,       \* Agent collection: id -> stored document
  last,         \* the last request served and its response
  nextUserId,   \* ObjectIds are fresh: the next id User.create hands out
  credentials,  \* User collection: id -> [email, phone, password, reset fields]
  favorites,    \* User collection: id -> favorites array
  clock,        \* Date.now()
  issued,       \* how many reset tokens crypto.randomBytes has produced
  messages,     \* Message collection
  requests      \* handlers suspended at an await: what each has read so far

vars == <<users, properties, nextPropId, agents, last,
          nextUserId, credentials, favorites, clock, issued, messages, requests>>

catalogVars == <<properties, nextPropId>>
agentVars == <<agents>>
identityVars == <<nextUserId, credentials, clock, issued>>
otherVars == <<favorites, messages, requests>>

\* ------------------------------------------------------ request payloads
Str(s) == [t |-> "string", s |-> s]
Undefined == [t |-> "undefined", s |-> <<>>]
Num(n) == [t |-> "number", s |-> <<n>>]

\* rejectionReason values a client can send
ReasonInputs ==
  {Undefined, [t |-> "number", s |-> <<>>], Str(<<>>), Str(<<" ", " ">>), Str(<<" ", "x">>)}

IsWhitespace(c) == c = " "

RECURSIVE TrimStart(_)
TrimStart(s) ==
  IF s = <<>> THEN s
  ELSE IF IsWhitespace(Head(s)) THEN TrimStart(Tail(s)) ELSE s

RECURSIVE TrimEnd(_)
TrimEnd(s) ==
  IF s = <<>> THEN s
  ELSE IF IsWhitespace(s[Len(s)]) THEN TrimEnd(SubSeq(s, 1, Len(s) - 1)) ELSE s

\* String.prototype.trim
Trim(s) == TrimEnd(TrimStart(s))

\* the fields a client can put in a property body that matter here; a body
\* is a function from the fields it carries to their values
NoBody == <<>>

Has(body, f) == f \in DOMAIN body

\* ------------------------------------------------------- Property schema
\* paths of propertySchema that the model tracks
PropertySchemaPaths == {"owner", "isPublished", "approvalStatus", "views"}

\* every path a handler assigns on a property document
PropertyDocPaths ==
  PropertySchemaPaths \cup {"approvedBy", "approvedAt", "rejectionReason"}

\* value a path has in a stored document that does not carry it
Absent(f) ==
  CASE f = "rejectionReason" -> Undefined
    [] f = "approvedAt" -> None
    [] OTHER -> NoUser

\* strict schema: only declared paths are persisted
StrictPersist(doc) ==
  [f \in PropertyDocPaths |-> IF f \in PropertySchemaPaths THEN doc[f] ELSE Absent(f)]

\* schema defaults of a new document
PropertyDefaults ==
  [owner |-> NoUser, isPublished |-> TRUE, approvalStatus |-> "pending", views |-> 0,
   approvedBy |-> NoUser, approvedAt |-> None, rejectionReason |-> Undefined]

\* ----------------------------------------------------- authorization guard
\* protect: the bearer token must resolve to an existing, active account
protect(caller) ==
  /\ caller \in DOMAIN users
  /\ users[caller].isActive

\* authorize(roles): the resolved identity's role must be allowed
authorize(caller, roles) == users[caller].role \in roles

\* what `last` records: the handler, the caller, the :id parameter, the
\* argument the checked properties look at (the rejectionReason of a reject, the body of
\* a create), the HTTP status and the ids a read returned
Response(op, caller, id, arg, status, result) ==
  [op |-> op, caller |-> caller, id |-> id, arg |-> arg,
   status |-> status, result |-> result]

Reply(op, caller, id, status) == Response(op, caller, id, Undefined, status, {})

Exists(id) == id \in DOMAIN properties

\* addresses nobody shares; the seeded user u logs in with Addresses[u] and has
\* no mobile
Addresses == <<"admin@x.io", "u2@x.io", "u3@x.io", "u4@x.io", "u5@x.io">>

NoReset == [token |-> None, expire |-> 0]

\* the pre-save hook stores the bcrypt hash of the password
Bcrypt(password) == <<"bcrypt", password>>

SeedCredentials(u) ==
  [email |-> Addresses[u], phone |-> None, password |-> Bcrypt("secret"),
   reset |-> NoReset]

Init ==
  /\ users = [u \in UserIds |->
               [role |-> IF u = 1 THEN "admin" ELSE "user", isActive |-> TRUE]]
  /\ properties = <<>>
  /\ nextPropId = 1
  /\ agents = <<>>
  /\ last = Reply("init", Anon, 0, 0)
  /\ nextUserId = NumUsers + 1
  /\ credentials = [u \in UserIds |-> SeedCredentials(u)]
  /\ favorites = [u \in UserIds |-> <<>>]
  /\ clock = 0
  /\ issued = 0
  /\ messages = <<>>
  /\ requests = {}

\* ------------------------------------------------------- property catalog
\* the role comparison written with === instead of !==
IsOwnerOrAdmin_RoleFlipped(doc, caller) ==
  ~(doc.owner # caller /\ users[caller].role = "admin")

\* the ownership check of updateProperty / deleteProperty
IsOwnerOrAdmin(doc, caller) ==
  ~(doc.owner # caller /\ users[caller].role # "admin")

\* the spread written after the assignments: the client's values win
CreatePropertyData_BodyWins(body, caller) ==
  [f \in DOMAIN body \cup {"owner", "isPublished", "approvalStatus"} |->
     IF Has(body, f) THEN body[f]
     ELSE CASE f = "owner" -> caller
            [] f = "isPublished" -> FALSE
            [] OTHER -> "pending"]

\* { ...req.body } followed by the assignments createProperty makes
CreatePropertyData(body, caller) ==
  [f \in DOMAIN body \cup {"owner", "isPublished", "approvalStatus"} |->
     CASE f = "owner" -> caller
       [] f = "isPublished" -> FALSE
       [] f = "approvalStatus" -> "pending"
       [] OTHER -> body[f]]

\* Property.create: schema defaults for the paths the data lacks, undeclared
\* paths dropped
NewPropertyDocument(data) ==
  StrictPersist([f \in PropertyDocPaths |->
                  IF Has(data, f) THEN data[f] ELSE PropertyDefaults[f]])

\* Property.findByIdAndUpdate(id, body): $set of the declared paths of body
ApplyPropertyUpdate(doc, body) ==
  [f \in PropertyDocPaths |->
     IF Has(body, f) /\ f \in PropertySchemaPaths THEN body[f] ELSE doc[f]]

\* runValidators: the update validators of the paths body sets
UpdateValidates(body) ==
  Has(body, "approvalStatus")
    => body.approvalStatus \in {"pending", "approved", "rejected"}

Remove(coll, id) == [k \in DOMAIN coll \ {id} |-> coll[k]]

createProperty(caller, body, valid) ==
  /\ nextPropId <= NumProps
  /\ UNCHANGED <<users, agentVars, identityVars, otherVars>>
  /\ IF ~protect(caller)
       THEN /\ last' = Response("createProperty", caller, 0, body, 401, {})
            /\ UNCHANGED <<properties, nextPropId>>
     ELSE IF ~valid
       THEN /\ last' = Response("createProperty", caller, 0, body, 400, {})
            /\ UNCHANGED <<properties, nextPropId>>
     ELSE /\ properties' = properties @@
                 (nextPropId :> NewPropertyDocument(CreatePropertyData(body, caller)))
          /\ nextPropId' = nextPropId + 1
          /\ last' = Response("createProperty", caller, nextPropId, body, 201, {})

updateProperty(caller, id, body) ==
  /\ UNCHANGED <<users, agentVars, nextPropId, identityVars, otherVars>>
  /\ IF ~protect(caller)
       THEN /\ last' = Reply("updateProperty", caller, id, 401)
            /\ UNCHANGED properties
     ELSE IF ~Exists(id)
       THEN /\ last' = Reply("updateProperty", caller, id, 404)
            /\ UNCHANGED properties
     ELSE IF ~IsOwnerOrAdmin(properties[id], caller)
       THEN /\ last' = Reply("updateProperty", caller, id, 403)
            /\ UNCHANGED properties
     ELSE IF ~UpdateValidates(body)
       THEN /\ last' = Reply("updateProperty", caller, id, 500)
            /\ UNCHANGED properties
     ELSE /\ properties' =
                 [properties EXCEPT ![id] = ApplyPropertyUpdate(properties[id], body)]
          /\ last' = Reply("updateProperty", caller, id, 200)

deleteProperty(caller, id) ==
  /\ UNCHANGED <<users, agentVars, nextPropId, identityVars, otherVars>>
  /\ IF ~protect(caller)
       THEN /\ last' = Reply("deleteProperty", caller, id, 401)
            /\ UNCHANGED properties
     ELSE IF ~Exists(id)
       THEN /\ last' = Reply("deleteProperty", caller, id, 404)
            /\ UNCHANGED properties
     ELSE IF ~IsOwnerOrAdmin(properties[id], caller)
       THEN /\ last' = Reply("deleteProperty", caller, id, 403)
            /\ UNCHANGED properties
     ELSE /\ properties' = Remove(properties, id)
          /\ last' = Reply("deleteProperty", caller, id, 200)

\* ---------------------------------------------------- moderation workflow
\* the assignments approveProperty makes on the loaded document
ApproveAssign(doc, caller) ==
  [doc EXCEPT !.approvalStatus = "approved", !.approvedBy = caller,
              !.approvedAt = Now, !.isPublished = TRUE]

\* the assignments rejectProperty makes on the loaded document
RejectAssign(doc, caller, reason) ==
  [doc EXCEPT !.approvalStatus = "rejected", !.approvedBy = caller,
              !.approvedAt = Now, !.rejectionReason = reason,
              !.isPublished = FALSE]

\* !rejectionReason || rejectionReason.trim().length === 0
ReasonMissing(reason) ==
  \/ reason.t = "undefined"
  \/ reason.t = "string" /\ Len(reason.s) = 0
  \/ reason.t = "string" /\ Len(Trim(reason.s)) = 0

\* a truthy value without a trim method makes the handler throw
ReasonThrows(reason) == reason.t = "number"

\* the guard compared against the wrong literal
AlreadyApproved_WrongLiteral(doc) == doc.approvalStatus = "approve"

AlreadyApproved(doc) == doc.approvalStatus = "approved"

AlreadyRejected(doc) == doc.approvalStatus = "rejected"

approveProperty(caller, id) ==
  /\ UNCHANGED <<users, agentVars, nextPropId, identityVars, otherVars>>
  /\ IF ~protect(caller)
       THEN /\ last' = Reply("approveProperty", caller, id, 401)
            /\ UNCHANGED properties
     ELSE IF ~authorize(caller, {"admin"})
       THEN /\ last' = Reply("approveProperty", caller, id, 403)
            /\ UNCHANGED properties
     ELSE IF ~Exists(id)
       THEN /\ last' = Reply("approveProperty", caller, id, 404)
            /\ UNCHANGED properties
     ELSE IF AlreadyApproved(properties[id])
       THEN /\ last' = Reply("approveProperty", caller, id, 400)
            /\ UNCHANGED properties
     ELSE /\ properties' =
                 [properties EXCEPT
                    ![id] = StrictPersist(ApproveAssign(properties[id], caller))]
          /\ last' = Reply("approveProperty", caller, id, 200)

rejectProperty(caller, id, reason) ==
  /\ UNCHANGED <<users, agentVars, nextPropId, identityVars, otherVars>>
  /\ IF ~protect(caller)
       THEN /\ last' = Response("rejectProperty", caller, id, reason, 401, {})
            /\ UNCHANGED properties
     ELSE IF ~authorize(caller, {"admin"})
       THEN /\ last' = Response("rejectProperty", caller, id, reason, 403, {})
            /\ UNCHANGED properties
     ELSE IF ReasonThrows(reason)
       THEN /\ last' = Response("rejectProperty", caller, id, reason, 500, {})
            /\ UNCHANGED properties
     ELSE IF ReasonMissing(reason)
       THEN /\ last' = Response("rejectProperty", caller, id, reason, 400, {})
            /\ UNCHANGED properties
     ELSE IF ~Exists(id)
       THEN /\ last' = Response("rejectProperty", caller, id, reason, 404, {})
            /\ UNCHANGED properties
     ELSE IF AlreadyRejected(properties[id])
       THEN /\ last' = Response("rejectProperty", caller, id, reason, 400, {})
            /\ UNCHANGED properties
     ELSE /\ properties' =
                 [properties EXCEPT
                    ![id] = StrictPersist(RejectAssign(properties[id], caller, reason))]
          /\ last' = Response("rejectProperty", caller, id, reason, 200, {})

\* ------------------------------------------------------------ public reads

\* the ids the unfiltered public list returns
PublicList ==
  {p \in DOMAIN properties :
     properties[p].isPublished \/ properties[p].approvalStatus = "approved"}

\* `match` stands for the documents that meet the other criteria of a query
\* (price, type, location, featured flag, agent, text score)
getProperties(match) ==
  /\ last' = Response("getProperties", Anon, 0, Undefined, 200, PublicList \cap match)
  /\ UNCHANGED <<users, agentVars, catalogVars, identityVars, otherVars>>

\* the document Property.findById returns
FindById(id) == IF Exists(id) THEN {id} ELSE {}

getProperty(id) ==
  /\ last' = Response("getProperty", Anon, id, Undefined,
                      IF FindById(id) = {} THEN 404 ELSE 200, FindById(id))
  /\ UNCHANGED <<users, agentVars, catalogVars, identityVars, otherVars>>

PublishedQuery(op, match) ==
  /\ last' = Response(op, Anon, 0, Undefined, 200,
                      {p \in DOMAIN properties \cap match : properties[p].isPublished})
  /\ UNCHANGED <<users, agentVars, catalogVars, identityVars, otherVars>>

getFeaturedProperties(match) == PublishedQuery("getFeaturedProperties", match)

getPropertiesByAgent(match) == PublishedQuery("getPropertiesByAgent", match)

getPropertiesByType(match) == PublishedQuery("getPropertiesByType", match)

searchProperties(match) == PublishedQuery("searchProperties", match)

PublicReadOps ==
  {"getProperties", "getProperty", "getFeaturedProperties",
   "getPropertiesByAgent", "getPropertiesByType", "searchProperties"}

\* -------------------------------------------------- catalog specification

SpecCatalog ==
  Init /\ [][
      \/ \E c \in Callers, v \in BOOLEAN,
            b \in {NoBody,
                   [approvalStatus |-> "approved", isPublished |-> TRUE],
                   [approvalStatus |-> "rejected", owner |-> 1],
                   [approvedBy |-> 1, approvedAt |-> Now, rejectionReason |-> Str(<<"x">>)]} :
            createProperty(c, b, v)
      \/ \E c \in Callers, i \in PropIds,
            b \in {[approvedBy |-> 1, approvedAt |-> Now, rejectionReason |-> Str(<<"x">>)],
                   [approvalStatus |-> "pending"], [approvalStatus |-> "approved"],
                   [approvalStatus |-> "bogus"],
                   [isPublished |-> TRUE], [isPublished |-> FALSE],
                   [owner |-> 1]} :
            updateProperty(c, i, b)
      \/ \E c \in Callers, i \in PropIds : deleteProperty(c, i)
      \/ \E c \in Callers, i \in PropIds : approveProperty(c, i)
      \/ \E c \in Callers, i \in PropIds, r \in ReasonInputs : rejectProperty(c, i, r)
      \/ \E m \in SUBSET PropIds : getProperties(m)
      \/ \E i \in PropIds : getProperty(i)
      \/ \E m \in SUBSET PropIds : getFeaturedProperties(m)
      \/ \E m \in SUBSET PropIds : getPropertiesByAgent(m)
      \/ \E m \in SUBSET PropIds : getPropertiesByType(m)
      \/ \E m \in SUBSET PropIds : searchProperties(m)
  ]_vars

\* --------------------------------------------------------- agent directory
MinRating == 1
MaxRating == 5

\* rating values a client can send (0: absent / falsy, 6: out of range)
RatingInputs == {0, 1, 4, 6}

\* min / max validators of reviews.rating (required)
ValidRating(r) == r >= MinRating /\ r <= MaxRating

\* a quotient n / d is kept as the pair <<n, d>>
Quot(n, d) == <<n, d>>
Zero == Quot(0, 1)
QuotEq(a, b) == a[1] * b[2] = b[1] * a[2]
QuotLeq(a, k) == a[1] <= k * a[2]

RECURSIVE SumRatings(_)
SumRatings(reviews) ==
  IF reviews = <<>> THEN 0
  ELSE Head(reviews).rating + SumRatings(Tail(reviews))

\* agentSchema.methods.calculateAverageRating
calculateAverageRating(doc) ==
  IF Len(doc.reviews) = 0
    THEN [doc EXCEPT !.ratings = [average |-> Zero, count |-> 0]]
    ELSE [doc EXCEPT !.ratings =
            [average |-> Quot(SumRatings(doc.reviews), Len(doc.reviews)),
             count |-> Len(doc.reviews)]]

\* agentSchema.pre('save')
PreSave(doc) == calculateAverageRating(doc)

\* validators of the paths the model tracks
ValidRatings(ratings) == QuotLeq(ratings.average, MaxRating)

ValidReviews(reviews) == \A i \in 1..Len(reviews) : ValidRating(reviews[i].rating)

ValidAgent(doc) == ValidRatings(doc.ratings) /\ ValidReviews(doc.reviews)

AgentDefaults ==
  [user |-> NoUser, isVerified |-> FALSE, reviews |-> <<>>,
   ratings |-> [average |-> Zero, count |-> 0]]

AgentPaths == {"user", "isVerified", "reviews", "ratings"}

AgentExists(id) == id \in DOMAIN agents

\* the collection holds at most MaxAgents documents at a time (MaxProfiles
\* where the account operations run); a new document takes the least id not
\* in use
CanCreateAgent == Cardinality(DOMAIN agents) < MaxAgents

CanCreateProfile == Cardinality(DOMAIN agents) < MaxProfiles

FreshAgentId == CHOOSE a \in (1..MaxProfiles) \ DOMAIN agents :
                  \A b \in (1..MaxProfiles) \ DOMAIN agents : a <= b

\* Agent.findOne({ user })
AgentOf(u) == {a \in DOMAIN agents : agents[a].user = u}

\* the ownership check of updateAgent / deleteAgent
IsAgentOwnerOrAdmin(doc, caller) ==
  ~(doc.user # caller /\ users[caller].role # "admin")

\* { user: req.user.id, ...req.body }
CreateAgentData(body, caller) ==
  [f \in DOMAIN body \cup {"user"} |-> IF Has(body, f) THEN body[f] ELSE caller]

NewAgentDocument(data) ==
  [f \in AgentPaths |-> IF Has(data, f) THEN data[f] ELSE AgentDefaults[f]]

\* Agent.findByIdAndUpdate(id, body): $set of the paths of body
ApplyAgentUpdate(doc, body) ==
  [f \in AgentPaths |-> IF Has(body, f) THEN body[f] ELSE doc[f]]

\* runValidators: the update validators of the paths body sets
AgentUpdateValidates(body) ==
  /\ Has(body, "ratings") => ValidRatings(body.ratings)
  /\ Has(body, "reviews") => ValidReviews(body.reviews)

createAgent(caller, body) ==
  /\ UNCHANGED <<users, catalogVars, identityVars, otherVars>>
  /\ IF ~protect(caller)
       THEN /\ last' = Reply("createAgent", caller, 0, 401)
            /\ UNCHANGED agents
     ELSE IF ~authorize(caller, {"agent"})
       THEN /\ last' = Reply("createAgent", caller, 0, 403)
            /\ UNCHANGED agents
     ELSE IF AgentOf(caller) # {}
       THEN /\ last' = Reply("createAgent", caller, 0, 400)
            /\ UNCHANGED agents
     ELSE IF ~ValidAgent(NewAgentDocument(CreateAgentData(body, caller)))
       THEN /\ last' = Reply("createAgent", caller, 0, 500)
            /\ UNCHANGED agents
     ELSE /\ agents' = agents @@
                 (FreshAgentId :> PreSave(NewAgentDocument(CreateAgentData(body, caller))))
          /\ last' = Reply("createAgent", caller, FreshAgentId, 201)

requestAgentRegistration(caller) ==
  /\ UNCHANGED <<users, catalogVars, identityVars, otherVars>>
  /\ IF ~protect(caller)
       THEN /\ last' = Reply("requestAgentRegistration", caller, 0, 401)
            /\ UNCHANGED agents
     ELSE IF AgentOf(caller) # {}
       THEN /\ last' = Reply("requestAgentRegistration", caller, 0, 400)
            /\ UNCHANGED agents
     ELSE /\ agents' = agents @@
                 (FreshAgentId :>
                    PreSave(NewAgentDocument([user |-> caller, isVerified |-> FALSE])))
          /\ last' = Reply("requestAgentRegistration", caller, FreshAgentId, 201)

\* User.findByIdAndUpdate(agent.user, { role: 'agent' }) inside try / catch;
\* writeOk: whether that write went through
PromoteUser(u, writeOk) ==
  IF writeOk /\ u \in DOMAIN users
    THEN [users EXCEPT ![u].role = "agent"]
    ELSE users

\* wasVerified left out of the test
GotVerified_IgnoresBefore(before, after) == after.isVerified

\* !wasVerified && agent && agent.isVerified === true
GotVerified(before, after) == ~before.isVerified /\ after.isVerified

updateAgent(caller, id, body) ==
  /\ UNCHANGED <<catalogVars, identityVars, otherVars>>
  /\ IF ~protect(caller)
       THEN /\ last' = Reply("updateAgent", caller, id, 401)
            /\ UNCHANGED <<agents, users>>
     ELSE IF ~AgentExists(id)
       THEN /\ last' = Reply("updateAgent", caller, id, 404)
            /\ UNCHANGED <<agents, users>>
     ELSE IF ~IsAgentOwnerOrAdmin(agents[id], caller)
       THEN /\ last' = Reply("updateAgent", caller, id, 403)
            /\ UNCHANGED <<agents, users>>
     ELSE IF ~AgentUpdateValidates(body)
       THEN /\ last' = Reply("updateAgent", caller, id, 500)
            /\ UNCHANGED <<agents, users>>
     ELSE /\ agents' = [agents EXCEPT ![id] = ApplyAgentUpdate(agents[id], body)]
          /\ IF GotVerified(agents[id], agents'[id])
               THEN \E writeOk \in BOOLEAN :
                      users' = PromoteUser(agents'[id].user, writeOk)
               ELSE users' = users
          /\ last' = Reply("updateAgent", caller, id, 200)

deleteAgent(caller, id) ==
  /\ UNCHANGED <<users, catalogVars, identityVars, otherVars>>
  /\ IF ~protect(caller)
       THEN /\ last' = Reply("deleteAgent", caller, id, 401)
            /\ UNCHANGED agents
     ELSE IF ~AgentExists(id)
       THEN /\ last' = Reply("deleteAgent", caller, id, 404)
            /\ UNCHANGED agents
     ELSE IF ~IsAgentOwnerOrAdmin(agents[id], caller)
       THEN /\ last' = Reply("deleteAgent", caller, id, 403)
            /\ UNCHANGED agents
     ELSE /\ agents' = Remove(agents, id)
          /\ last' = Reply("deleteAgent", caller, id, 200)

\* --------------------------------------------------------------- reviews
\* the stored author compared with the agent's own user instead of the caller
HasReviewed_AgainstAgentUser(doc, caller) ==
  \E i \in 1..Len(doc.reviews) : doc.reviews[i].user = doc.user

\* agent.reviews.find(review => review.user.toString() === req.user.id)
HasReviewed(doc, caller) ==
  \E i \in 1..Len(doc.reviews) : doc.reviews[i].user = caller

\* agent.reviews.id(reviewId) finds a review
ReviewFound(doc, i) == i \in 1..Len(doc.reviews)

\* agent.reviews.push(review)
PushReview(doc, caller, rating) ==
  [doc EXCEPT !.reviews = Append(@, [user |-> caller, rating |-> rating])]

\* if (req.body.rating) review.rating = req.body.rating
AssignRating(doc, i, rating) ==
  IF rating # 0 THEN [doc EXCEPT !.reviews[i].rating = rating] ELSE doc

\* review.remove()
PullReview(doc, i) ==
  [doc EXCEPT !.reviews = SubSeq(@, 1, i - 1) \o SubSeq(@, i + 1, Len(@))]

\* the review author check of updateAgentReview
IsAuthor(review, caller) == review.user = caller

\* the author-or-admin check of deleteAgentReview
IsAuthorOrAdmin(review, caller) ==
  ~(review.user # caller /\ users[caller].role # "admin")

\* an agent holds at most MaxReviews reviews in the model
CanPush(id) == AgentExists(id) => Len(agents[id].reviews) < MaxReviews

addAgentReview(caller, id, rating) ==
  /\ UNCHANGED <<users, catalogVars, identityVars, otherVars>>
  /\ IF ~protect(caller)
       THEN /\ last' = Response("addAgentReview", caller, id, Num(rating), 401, {})
            /\ UNCHANGED agents
     ELSE IF ~AgentExists(id)
       THEN /\ last' = Response("addAgentReview", caller, id, Num(rating), 404, {})
            /\ UNCHANGED agents
     ELSE IF HasReviewed(agents[id], caller)
       THEN /\ last' = Response("addAgentReview", caller, id, Num(rating), 400, {})
            /\ UNCHANGED agents
     ELSE IF ~ValidAgent(PushReview(agents[id], caller, rating))
       THEN /\ last' = Response("addAgentReview", caller, id, Num(rating), 500, {})
            /\ UNCHANGED agents
     ELSE /\ CanPush(id)
          /\ agents' = [agents EXCEPT
                 ![id] = PreSave(PushReview(agents[id], caller, rating))]
          /\ last' = Response("addAgentReview", caller, id, Num(rating), 201, {})

updateAgentReview(caller, id, i, rating) ==
  /\ UNCHANGED <<users, catalogVars, identityVars, otherVars>>
  /\ IF ~protect(caller)
       THEN /\ last' = Reply("updateAgentReview", caller, id, 401)
            /\ UNCHANGED agents
     ELSE IF ~AgentExists(id)
       THEN /\ last' = Reply("updateAgentReview", caller, id, 404)
            /\ UNCHANGED agents
     ELSE IF ~ReviewFound(agents[id], i)
       THEN /\ last' = Reply("updateAgentReview", caller, id, 404)
            /\ UNCHANGED agents
     ELSE IF ~IsAuthor(agents[id].reviews[i], caller)
       THEN /\ last' = Reply("updateAgentReview", caller, id, 403)
            /\ UNCHANGED agents
     ELSE IF ~ValidAgent(AssignRating(agents[id], i, rating))
       THEN /\ last' = Reply("updateAgentReview", caller, id, 500)
            /\ UNCHANGED agents
     ELSE /\ agents' = [agents EXCEPT
                 ![id] = PreSave(AssignRating(agents[id], i, rating))]
          /\ last' = Reply("updateAgentReview", caller, id, 200)

\* hasRemove: whether the installed mongoose still gives subdocuments a
\* remove() method; without it the call throws
RemoveOutcomes == BOOLEAN

\* The controller exports this handler and the agent router imports it, but
\* the router mounts no route for it. It reads req.user, so it is modelled
\* behind protect like updateAgentReview; the behaviours it adds are a
\* superset of what the mounted routes allow.
deleteAgentReview(caller, id, i) ==
  /\ UNCHANGED <<users, catalogVars, identityVars, otherVars>>
  /\ IF ~protect(caller)
       THEN /\ last' = Reply("deleteAgentReview", caller, id, 401)
            /\ UNCHANGED agents
     ELSE IF ~AgentExists(id)
       THEN /\ last' = Reply("deleteAgentReview", caller, id, 404)
            /\ UNCHANGED agents
     ELSE IF ~ReviewFound(agents[id], i)
       THEN /\ last' = Reply("deleteAgentReview", caller, id, 404)
            /\ UNCHANGED agents
     ELSE IF ~IsAuthorOrAdmin(agents[id].reviews[i], caller)
       THEN /\ last' = Reply("deleteAgentReview", caller, id, 403)
            /\ UNCHANGED agents
     ELSE \E hasRemove \in RemoveOutcomes :
            IF ~hasRemove \/ ~ValidAgent(PullReview(agents[id], i))
              THEN /\ last' = Reply("deleteAgentReview", caller, id, 500)
                   /\ UNCHANGED agents
              ELSE /\ agents' = [agents EXCEPT
                          ![id] = PreSave(PullReview(agents[id], i))]
                   /\ last' = Reply("deleteAgentReview", caller, id, 200)

\* ---------------------------------------------------- agent specification

SpecAgents ==
  Init /\ [][
      \/ \E c \in Callers,
            b \in {NoBody,
                   [isVerified |-> TRUE, ratings |-> [average |-> Quot(5, 1), count |-> 9]],
                   [user |-> 1]} :
            CanCreateAgent /\ createAgent(c, b)
      \/ \E c \in Callers : CanCreateAgent /\ requestAgentRegistration(c)
      \/ \E c \in Callers, a \in AgentIds,
            b \in {[isVerified |-> TRUE],
                   [isVerified |-> FALSE],
                   [ratings |-> [average |-> Quot(5, 1), count |-> 9]],
                   [ratings |-> [average |-> Quot(9, 1), count |-> 9]],
                   [reviews |-> <<>>]} :
            updateAgent(c, a, b)
      \/ \E c \in Callers, a \in AgentIds : deleteAgent(c, a)
      \/ \E c \in Callers, a \in AgentIds, r \in RatingInputs : addAgentReview(c, a, r)
      \* a request names a review by its place in agent.reviews
      \/ \E c \in Callers, a \in AgentIds, i \in 1..MaxReviews, r \in RatingInputs :
            updateAgentReview(c, a, i, r)
      \/ \E c \in Callers, a \in AgentIds, i \in 1..MaxReviews : deleteAgentReview(c, a, i)
  ]_vars

\* ======================================================================
\* Accounts: users, roles and the agent profile linked to a user
\* ======================================================================
Roles == {"user", "agent", "admin"}

UserExists(u) == u \in DOMAIN users

\* User.findOne({ email }) / User.findOne({ phone: mobile })
UsersWithEmail(email) == {u \in DOMAIN users : credentials[u].email = email}

UsersWithPhone(mobile) == {u \in DOMAIN users : credentials[u].phone = mobile}

\* if (email) findOne by email; else if (mobile) findOne by phone
ExistingUser(email, mobile) ==
  IF email # None THEN UsersWithEmail(email)
  ELSE IF mobile # None THEN UsersWithPhone(mobile)
  ELSE {}

\* role: role || 'user'
UserData(email, mobile, role) ==
  [role |-> IF role = None THEN "user" ELSE role, email |-> email, phone |-> mobile]

\* the validators of User.create: a role of the enum, and an email or a phone
ValidUserData(data) ==
  /\ data.role \in Roles
  /\ data.email # None \/ data.phone # None

\* the value is already held by another account: a unique index, if the
\* collection has one, makes User.create throw
DuplicateKey(data) ==
  \/ data.email # None /\ UsersWithEmail(data.email) # {}
  \/ data.phone # None /\ UsersWithPhone(data.phone) # {}

NewUser(data) == [role |-> data.role, isActive |-> TRUE]

NewCredentials(data, password) ==
  [email |-> data.email, phone |-> data.phone, password |-> Bcrypt(password),
   reset |-> NoReset]

\* the profile register and updateUserRole create
BlankProfile(u) == PreSave(NewAgentDocument([user |-> u, isVerified |-> FALSE]))

\* a string neither regular expression accepts
Malformed == "malformed"

\* if (email) { emailRegex.test(email) } if (mobile) { mobileRegex.test(mobile) }
WellFormed(email, mobile) ==
  /\ email # None => email # Malformed
  /\ mobile # None => mobile # Malformed

\* POST /api/auth/register
\* uniqueIndex: whether the User collection has a unique index on the field
register(email, mobile, password, role, uniqueIndex) ==
  /\ UNCHANGED <<catalogVars, clock, issued, messages, requests>>
  /\ IF ~WellFormed(email, mobile)
       THEN /\ last' = Response("register", Anon, 0,
                                [email |-> email, mobile |-> mobile, role |-> role], 400, {})
            /\ UNCHANGED <<users, agents, nextUserId, credentials, favorites>>
     ELSE IF ExistingUser(email, mobile) # {}
       THEN /\ last' = Response("register", Anon, 0,
                                [email |-> email, mobile |-> mobile, role |-> role], 400, {})
            /\ UNCHANGED <<users, agents, nextUserId, credentials, favorites>>
     ELSE IF \/ ~ValidUserData(UserData(email, mobile, role))
             \/ DuplicateKey(UserData(email, mobile, role)) /\ uniqueIndex
       THEN /\ last' = Response("register", Anon, 0,
                                [email |-> email, mobile |-> mobile, role |-> role], 500, {})
            /\ UNCHANGED <<users, agents, nextUserId, credentials, favorites>>
     ELSE /\ nextUserId <= NumUsers
          /\ users' = users @@ (nextUserId :> NewUser(UserData(email, mobile, role)))
          /\ credentials' = credentials @@
               (nextUserId :> NewCredentials(UserData(email, mobile, role), password))
          /\ favorites' = favorites @@ (nextUserId :> <<>>)
          /\ nextUserId' = nextUserId + 1
          /\ IF role = "agent"
               THEN /\ CanCreateProfile
                    /\ agents' = agents @@ (FreshAgentId :> BlankProfile(nextUserId))
               ELSE agents' = agents
          /\ last' = Response("register", Anon, nextUserId,
                              [email |-> email, mobile |-> mobile, role |-> role], 201, {})

\* the user document leaves the collection with all its fields
RemoveUser(u) ==
  /\ users' = Remove(users, u)
  /\ credentials' = Remove(credentials, u)
  /\ favorites' = Remove(favorites, u)

\* the lookup left out: a profile is created on every change to agent
NeedsProfile_NoLookup(id, role) == role = "agent"

\* if (role === 'agent') { existingAgent = Agent.findOne({ user }); if (!existingAgent) ...
NeedsProfile(id, role) == role = "agent" /\ AgentOf(id) = {}

\* PUT /api/users/:id/role (users controller)
updateUserRole(caller, id, role) ==
  /\ UNCHANGED <<catalogVars, identityVars, otherVars>>
  /\ IF ~protect(caller)
       THEN /\ last' = Response("updateUserRole", caller, id, [role |-> role], 401, {})
            /\ UNCHANGED <<users, agents>>
     ELSE IF ~authorize(caller, {"admin"})
       THEN /\ last' = Response("updateUserRole", caller, id, [role |-> role], 403, {})
            /\ UNCHANGED <<users, agents>>
     ELSE IF id = caller
       THEN /\ last' = Response("updateUserRole", caller, id, [role |-> role], 400, {})
            /\ UNCHANGED <<users, agents>>
     ELSE IF role \notin Roles
       THEN /\ last' = Response("updateUserRole", caller, id, [role |-> role], 500, {})
            /\ UNCHANGED <<users, agents>>
     ELSE IF ~UserExists(id)
       THEN /\ last' = Response("updateUserRole", caller, id, [role |-> role], 404, {})
            /\ UNCHANGED <<users, agents>>
     ELSE /\ users' = [users EXCEPT ![id].role = role]
          /\ IF NeedsProfile(id, role)
               THEN /\ CanCreateProfile
                    /\ agents' = agents @@ (FreshAgentId :> BlankProfile(id))
               ELSE agents' = agents
          /\ last' = Response("updateUserRole", caller, id, [role |-> role], 200, {})

\* bodies a client can send to PUT /api/users/:id
UserUpdateBodies == {[role |-> "agent"], [role |-> "admin"], [isActive |-> FALSE]}

\* User.findByIdAndUpdate(id, body): $set of the paths of body
ApplyUserUpdate(doc, body) ==
  [f \in {"role", "isActive"} |-> IF Has(body, f) THEN body[f] ELSE doc[f]]

UserUpdateValidates(body) == Has(body, "role") => body.role \in Roles

\* the ownership check of updateUser
IsSelfOrAdmin(id, caller) == ~(id # caller /\ users[caller].role # "admin")

\* PUT /api/users/:id (users controller)
updateUser(caller, id, body) ==
  /\ UNCHANGED <<catalogVars, agentVars, identityVars, otherVars>>
  /\ IF ~protect(caller)
       THEN /\ last' = Reply("updateUser", caller, id, 401)
            /\ UNCHANGED users
     ELSE IF ~UserExists(id)
       THEN /\ last' = Reply("updateUser", caller, id, 404)
            /\ UNCHANGED users
     ELSE IF ~IsSelfOrAdmin(id, caller)
       THEN /\ last' = Reply("updateUser", caller, id, 403)
            /\ UNCHANGED users
     ELSE IF ~UserUpdateValidates(body)
       THEN /\ last' = Reply("updateUser", caller, id, 500)
            /\ UNCHANGED users
     ELSE /\ users' = [users EXCEPT ![id] = ApplyUserUpdate(users[id], body)]
          /\ last' = Reply("updateUser", caller, id, 200)

\* DELETE /api/users/:id (users controller); Agent.findOneAndDelete removes
\* one of the profiles that reference the user
deleteUser(caller, id) ==
  /\ UNCHANGED <<catalogVars, nextUserId, clock, issued, messages, requests>>
  /\ IF ~protect(caller)
       THEN /\ last' = Reply("deleteUser", caller, id, 401)
            /\ UNCHANGED <<users, credentials, favorites, agents>>
     ELSE IF ~authorize(caller, {"admin"})
       THEN /\ last' = Reply("deleteUser", caller, id, 403)
            /\ UNCHANGED <<users, credentials, favorites, agents>>
     ELSE IF id = caller
       THEN /\ last' = Reply("deleteUser", caller, id, 400)
            /\ UNCHANGED <<users, credentials, favorites, agents>>
     ELSE IF ~UserExists(id)
       THEN /\ last' = Reply("deleteUser", caller, id, 404)
            /\ UNCHANGED <<users, credentials, favorites, agents>>
     ELSE /\ IF AgentOf(id) = {}
               THEN agents' = agents
               ELSE \E a \in AgentOf(id) : agents' = Remove(agents, a)
          /\ RemoveUser(id)
          /\ last' = Reply("deleteUser", caller, id, 200)

\* DELETE /api/admin/users/:id (admin controller)
admin_deleteUser(caller, id) ==
  /\ UNCHANGED <<catalogVars, agentVars, nextUserId, clock, issued, messages, requests>>
  /\ IF ~protect(caller)
       THEN /\ last' = Reply("admin_deleteUser", caller, id, 401)
            /\ UNCHANGED <<users, credentials, favorites>>
     ELSE IF ~authorize(caller, {"admin"})
       THEN /\ last' = Reply("admin_deleteUser", caller, id, 403)
            /\ UNCHANGED <<users, credentials, favorites>>
     ELSE IF ~UserExists(id)
       THEN /\ last' = Reply("admin_deleteUser", caller, id, 404)
            /\ UNCHANGED <<users, credentials, favorites>>
     ELSE IF id = caller
       THEN /\ last' = Reply("admin_deleteUser", caller, id, 400)
            /\ UNCHANGED <<users, credentials, favorites>>
     ELSE /\ RemoveUser(id)
          /\ last' = Reply("admin_deleteUser", caller, id, 200)

\* ------------------------------------------- handlers suspended at an await
\* two requests of one caller can be in flight at once, one per connection
Connections == {"a", "b"}

\* requestAgentRegistration up to its Agent.findOne: the handler has seen that
\* the caller has no profile and has not yet called Agent.create
requestAgentRegistration_findOne(caller, conn) ==
  /\ [op |-> "requestAgentRegistration", caller |-> caller, conn |-> conn]
       \notin requests
  /\ UNCHANGED <<users, catalogVars, agentVars, identityVars, favorites, messages>>
  /\ IF ~protect(caller)
       THEN /\ last' = Reply("requestAgentRegistration", caller, 0, 401)
            /\ UNCHANGED requests
     ELSE IF AgentOf(caller) # {}
       THEN /\ last' = Reply("requestAgentRegistration", caller, 0, 400)
            /\ UNCHANGED requests
     ELSE /\ requests' = requests \cup
                 {[op |-> "requestAgentRegistration", caller |-> caller, conn |-> conn]}
          /\ UNCHANGED last

\* requestAgentRegistration from its Agent.create to the response
requestAgentRegistration_create(caller, conn) ==
  /\ [op |-> "requestAgentRegistration", caller |-> caller, conn |-> conn] \in requests
  /\ CanCreateProfile
  /\ UNCHANGED <<users, catalogVars, identityVars, favorites, messages>>
  /\ requests' = requests \
       {[op |-> "requestAgentRegistration", caller |-> caller, conn |-> conn]}
  /\ agents' = agents @@
       (FreshAgentId :> PreSave(NewAgentDocument([user |-> caller, isVerified |-> FALSE])))
  /\ last' = Reply("requestAgentRegistration", caller, FreshAgentId, 201)

\* ------------------------------------------------- account specification
\* the seeded admin and users; the last id is left for a registration
SeededUsers == 1..(NumUsers - 1)

InitAccounts ==
  /\ users = [u \in SeededUsers |->
               [role |-> IF u = 1 THEN "admin" ELSE "user", isActive |-> TRUE]]
  /\ properties = <<>>
  /\ nextPropId = 1
  /\ agents = <<>>
  /\ last = Reply("init", Anon, 0, 0)
  /\ nextUserId = NumUsers
  /\ credentials = [u \in SeededUsers |-> SeedCredentials(u)]
  /\ favorites = [u \in SeededUsers |-> <<>>]
  /\ clock = 0
  /\ issued = 0
  /\ messages = <<>>
  /\ requests = {}



\* the operations that create agent profiles
SpecProfiles ==
  InitAccounts /\ [][
      \/ \E role \in {"user", "agent"} :
            register(Addresses[nextUserId], None, "secret", role, TRUE)
      \/ \E c \in Callers, b \in {NoBody, [user |-> 1]} : CanCreateProfile /\ createAgent(c, b)
      \/ \E c \in Callers, n \in Connections : requestAgentRegistration_findOne(c, n)
      \/ \E c \in Callers, n \in Connections : requestAgentRegistration_create(c, n)
      \/ \E c \in Callers, u \in UserIds, role \in {"user", "agent"} : updateUserRole(c, u, role)
  ]_vars

\* the operations that verify a profile or write a role
SpecVerification ==
  Init /\ [][
      \/ \E c \in Callers : CanCreateAgent /\ requestAgentRegistration(c)
      \/ \E c \in Callers, a \in AgentIds,
            b \in {[isVerified |-> TRUE], [isVerified |-> FALSE]} : updateAgent(c, a, b)
      \/ \E c \in Callers, u \in UserIds, b \in UserUpdateBodies : updateUser(c, u, b)
  ]_vars

\* the operations that delete users, and those that give them a profile
SpecRemoval ==
  Init /\ [][
      \/ \E c \in Callers : CanCreateAgent /\ requestAgentRegistration(c)
      \/ \E c \in Callers, a \in AgentIds : deleteAgent(c, a)
      \/ \E c \in Callers, u \in UserIds : deleteUser(c, u)
      \/ \E c \in Callers, u \in UserIds : admin_deleteUser(c, u)
  ]_vars

\* ------------------------------------------------------------------ login
\* the stored hash is not looked at
MatchPassword_AnyPassword(cred, entered) == TRUE

\* user.matchPassword(password): bcrypt.compare with the stored hash
MatchPassword(cred, entered) == cred.password = Bcrypt(entered)

\* POST /api/auth/login; findOne answers one of the matching accounts
login(email, mobile, password) ==
  /\ UNCHANGED <<users, catalogVars, agentVars, identityVars, otherVars>>
  /\ IF ~WellFormed(email, mobile)
       THEN last' = Response("login", Anon, 0,
                             [email |-> email, mobile |-> mobile, password |-> password], 400, {})
     ELSE IF ExistingUser(email, mobile) = {}
       THEN last' = Response("login", Anon, 0,
                             [email |-> email, mobile |-> mobile, password |-> password], 401, {})
     ELSE \E u \in ExistingUser(email, mobile) :
            IF ~users[u].isActive
              THEN last' = Response("login", Anon, u,
                                    [email |-> email, mobile |-> mobile, password |-> password], 401, {})
            ELSE IF ~MatchPassword(credentials[u], password)
              THEN last' = Response("login", Anon, u,
                                    [email |-> email, mobile |-> mobile, password |-> password], 401, {})
            ELSE last' = Response("login", Anon, u,
                                  [email |-> email, mobile |-> mobile, password |-> password], 200, {u})

\* PUT /api/admin/users/:id/status
updateUserStatus(caller, id, isActive) ==
  /\ UNCHANGED <<catalogVars, agentVars, identityVars, otherVars>>
  /\ IF ~protect(caller)
       THEN /\ last' = Response("updateUserStatus", caller, id, [isActive |-> isActive], 401, {})
            /\ UNCHANGED users
     ELSE IF ~authorize(caller, {"admin"})
       THEN /\ last' = Response("updateUserStatus", caller, id, [isActive |-> isActive], 403, {})
            /\ UNCHANGED users
     ELSE IF ~UserExists(id)
       THEN /\ last' = Response("updateUserStatus", caller, id, [isActive |-> isActive], 404, {})
            /\ UNCHANGED users
     ELSE /\ users' = [users EXCEPT ![id].isActive = isActive]
          /\ last' = Response("updateUserStatus", caller, id, [isActive |-> isActive], 200, {})

\* mobile numbers nobody shares
Mobiles == <<"5550000001", "5550000002", "5550000003", "5550000004", "5550000005">>

InitAuth ==
  /\ users = [u \in SeededUsers |->
               [role |-> IF u = 1 THEN "admin" ELSE "user", isActive |-> TRUE]]
  /\ properties = <<>>
  /\ nextPropId = 1
  /\ agents = <<>>
  /\ last = Reply("init", Anon, 0, 0)
  /\ nextUserId = NumUsers
  \* accounts registered by email (odd ids) and by mobile number (even ids)
  /\ credentials = [u \in SeededUsers |->
       IF u % 2 = 1 THEN SeedCredentials(u)
       ELSE [email |-> None, phone |-> Mobiles[u], password |-> Bcrypt("secret"),
             reset |-> NoReset]]
  /\ favorites = [u \in SeededUsers |-> <<>>]
  /\ clock = 0
  /\ issued = 0
  /\ messages = <<>>
  /\ requests = {}

SpecAuth ==
  InitAuth /\ [][
      \* email and mobile: absent, malformed, held by an account, held by nobody
      \/ \E e \in {None, Malformed, Addresses[1], Addresses[NumUsers]},
            m \in {None, Malformed, Mobiles[2], Mobiles[NumUsers]}, ui \in BOOLEAN :
           register(e, m, "secret", None, ui)
      \/ \E e \in {None, Malformed, Addresses[1], Addresses[NumUsers]},
            m \in {None, Malformed, Mobiles[2], Mobiles[NumUsers]},
            pw \in {"secret", "guess"} : login(e, m, pw)
      \/ \E c \in Callers, u \in UserIds, b \in BOOLEAN : updateUserStatus(c, u, b)
  ]_vars

\* --------------------------------------------------------- password reset
\* a token is named by its place in the random source, so that two draws
\* never give the same token
\* crypto.createHash('sha256').update(token).digest('hex')
Sha256(token) == <<"d1", "d2", "d3", "d4", "d5">>[token]

\* POST /api/auth/forgot-password; sent: whether sendEmail succeeded.
\* last.id is the token the mail carries
\* user.getResetPasswordToken() stores the hash of a fresh token and its
\* expiry: a token is good for one tick of the clock
forgotPassword(email, sent) ==
  /\ UNCHANGED <<users, catalogVars, agentVars, nextUserId, clock, otherVars>>
  /\ IF UsersWithEmail(email) = {}
       THEN /\ last' = Response("forgotPassword", Anon, 0, [email |-> email], 404, {})
            /\ UNCHANGED <<credentials, issued>>
     ELSE /\ issued < MaxTokens
          /\ issued' = issued + 1
          /\ \E u \in UsersWithEmail(email) :
               IF sent
                 THEN /\ credentials' = [credentials EXCEPT
                             ![u].reset = [token |-> Sha256(issued + 1),
                                           expire |-> clock + 1]]
                      /\ last' = Response("forgotPassword", Anon, issued + 1,
                                          [email |-> email], 200, {u})
                 ELSE /\ credentials' = [credentials EXCEPT ![u].reset = NoReset]
                      /\ last' = Response("forgotPassword", Anon, 0,
                                          [email |-> email], 500, {})

\* User.findOne({ resetPasswordToken, resetPasswordExpire: { $gt: Date.now() } })
ResetHolders(token) ==
  {u \in DOMAIN users : /\ credentials[u].reset.token = Sha256(token)
                         /\ credentials[u].reset.expire > clock}

\* the password is replaced and the reset fields are left in place
NewPassword_KeepsReset(cred, password) == [cred EXCEPT !.password = Bcrypt(password)]

\* user.password = password; resetPasswordToken = resetPasswordExpire = undefined
NewPassword(cred, password) ==
  [cred EXCEPT !.password = Bcrypt(password), !.reset = NoReset]

\* PUT /api/auth/reset-password/:token; saved: whether user.save() passed
\* validation
resetPassword(token, password, saved) ==
  /\ UNCHANGED <<users, catalogVars, agentVars, nextUserId, clock, issued, otherVars>>
  /\ IF ResetHolders(token) = {}
       THEN /\ last' = Response("resetPassword", Anon, 0,
                                [token |-> token, password |-> password], 400, {})
            /\ UNCHANGED credentials
     ELSE \E u \in ResetHolders(token) :
            IF ~saved
              THEN /\ last' = Response("resetPassword", Anon, u,
                                       [token |-> token, password |-> password], 500, {})
                   /\ UNCHANGED credentials
              ELSE /\ credentials' = [credentials EXCEPT
                          ![u] = NewPassword(@, password)]
                   /\ last' = Response("resetPassword", Anon, u,
                                       [token |-> token, password |-> password], 200, {u})

\* time passes between requests
tick ==
  /\ clock < MaxClock
  /\ clock' = clock + 1
  /\ UNCHANGED <<users, catalogVars, agentVars, nextUserId, credentials, issued,
                 otherVars, last>>


SpecReset ==
  Init /\ [][
      \/ \E e \in {Addresses[2], Addresses[NumUsers], "nobody@x.io"}, sent \in BOOLEAN :
           forgotPassword(e, sent)
      \/ \E t \in (1..MaxTokens), pw \in {"changed", "again"}, saved \in BOOLEAN :
           resetPassword(t, pw, saved)
      \/ tick
  ]_vars

\* ----------------------------------------------------------- contact form
\* bodies a client can send to POST /api/contact: a plain submission, one
\* that also names a recipient and a status (its email is a string of 24 hex
\* digits; no validator is enforced), and one without a message
ContactBodies ==
  {[message |-> "hello", email |-> "guest@x.io"],
   [message |-> "hello", email |-> "p1", to |-> 2, status |-> "closed"],
   [subject |-> "hello"]}

\* User.findOne({ role: 'admin' })
AdminUsers == {u \in DOMAIN users : users[u].role = "admin"}

\* recipient and status taken from the body when it has them
MessageData_BodyWins(body, adminUser) ==
  [from |-> NoUser,
   to |-> IF Has(body, "to") THEN body.to ELSE adminUser,
   message |-> IF Has(body, "message") THEN Str(<<body.message>>) ELSE Undefined,
   email |-> IF Has(body, "email") THEN body.email ELSE None,
   status |-> IF Has(body, "status") THEN body.status ELSE "sent",
   metadata |-> [source |-> "contact_form"]]

\* messageData; the route runs no protect, so req.user is unset and from is null
MessageData(body, adminUser) ==
  [from |-> NoUser,
   to |-> adminUser,
   message |-> IF Has(body, "message") THEN Str(<<body.message>>) ELSE Undefined,
   email |-> IF Has(body, "email") THEN body.email ELSE None,
   status |-> "sent",
   metadata |-> [source |-> "contact_form"]]

\* the validators of Message.create: a message needs its text
ValidMessage(doc) == doc.message # Undefined

\* POST /api/contact
createContact(body) ==
  /\ UNCHANGED <<users, catalogVars, agentVars, identityVars, favorites, requests>>
  /\ IF AdminUsers = {}
       THEN /\ last' = Response("createContact", Anon, 0, body, 500, {})
            /\ UNCHANGED messages
     ELSE \E adminUser \in AdminUsers :
            IF ~ValidMessage(MessageData(body, adminUser))
              THEN /\ last' = Response("createContact", Anon, 0, body, 500, {})
                   /\ UNCHANGED messages
              ELSE /\ Len(messages) < MaxMessages
                   /\ messages' = Append(messages, MessageData(body, adminUser))
                   /\ last' = Response("createContact", Anon, 0, body, 201, {})

SpecContact ==
  Init /\ [][
      \/ \E b \in ContactBodies : createContact(b)
      \/ \E c \in Callers, u \in UserIds, b \in UserUpdateBodies : updateUser(c, u, b)
  ]_vars

\* -------------------------------------------------------------- favorites
\* req.params.id as the client spells it: an ObjectId is 24 hex digits in
\* either case, and a string that is no ObjectId can be sent as well
IdParams == {"p1", "P1", "p2", "zz"}
InvalidId == 0

\* the cast of a string to ObjectId: case is not kept, and a string that is no
\* ObjectId has no cast (CastError)
CastObjectId(param) ==
  CASE param \in {"p1", "P1"} -> 1
    [] param \in {"p2", "P2"} -> 2
    [] OTHER -> InvalidId

\* ObjectId.prototype.toString: lower-case hex
ObjectIdToString(id) == IF id = 1 THEN "p1" ELSE "p2"

\* the stored ids compared as strings with the parameter, no cast
Includes_NoCast(list, param) ==
  \E i \in 1..Len(list) : ObjectIdToString(list[i]) = param

\* user.favorites.includes(propertyId): the array casts its argument
Includes(list, param) ==
  \E i \in 1..Len(list) : list[i] = CastObjectId(param)

\* user.favorites.filter(fav => fav.toString() !== propertyId)
FilterOut(list, param) ==
  SelectSeq(list, LAMBDA fav : ObjectIdToString(fav) # param)

addToFavorites(caller, param) ==
  /\ UNCHANGED <<users, catalogVars, agentVars, identityVars, messages, requests>>
  /\ IF ~protect(caller)
       THEN /\ last' = Response("addToFavorites", caller, CastObjectId(param),
                                [propertyId |-> param], 401, {})
            /\ UNCHANGED favorites
     ELSE IF CastObjectId(param) = InvalidId
       THEN /\ last' = Response("addToFavorites", caller, CastObjectId(param),
                                [propertyId |-> param], 500, {})
            /\ UNCHANGED favorites
     ELSE IF Includes(favorites[caller], param)
       THEN /\ last' = Response("addToFavorites", caller, CastObjectId(param),
                                [propertyId |-> param], 400, {})
            /\ UNCHANGED favorites
     ELSE /\ favorites' = [favorites EXCEPT
                 ![caller] = Append(@, CastObjectId(param))]
          /\ last' = Response("addToFavorites", caller, CastObjectId(param),
                              [propertyId |-> param], 200, {})

removeFromFavorites(caller, param) ==
  /\ UNCHANGED <<users, catalogVars, agentVars, identityVars, messages, requests>>
  /\ IF ~protect(caller)
       THEN /\ last' = Response("removeFromFavorites", caller, CastObjectId(param),
                                [propertyId |-> param], 401, {})
            /\ UNCHANGED favorites
     ELSE /\ favorites' = [favorites EXCEPT ![caller] = FilterOut(@, param)]
          /\ last' = Response("removeFromFavorites", caller, CastObjectId(param),
                              [propertyId |-> param], 200, {})

SpecFavorites ==
  Init /\ [][
      \/ \E c \in Callers, p \in IdParams : addToFavorites(c, p)
      \/ \E c \in Callers, p \in IdParams : removeFromFavorites(c, p)
  ]_vars

\* addToFavorites up to its User.findById: the handler holds the user document
\* as it was read and has not yet looked at it
addToFavorites_findById(caller, conn, param) ==
  /\ \A r \in requests : r.conn # conn
  /\ UNCHANGED <<users, catalogVars, agentVars, identityVars, favorites, messages>>
  /\ IF ~protect(caller)
       THEN /\ last' = Response("addToFavorites", caller, CastObjectId(param),
                                [propertyId |-> param], 401, {})
            /\ UNCHANGED requests
     ELSE /\ requests' = requests \cup
                 {[op |-> "addToFavorites", caller |-> caller, conn |-> conn,
                   propertyId |-> param, favorites |-> favorites[caller]]}
          /\ UNCHANGED last

\* addToFavorites from includes() to the response: the membership test looks
\* at the document as read, and save() sends the push as a $push on the
\* stored array, with no version check
addToFavorites_save(conn) ==
  /\ UNCHANGED <<users, catalogVars, agentVars, identityVars, messages>>
  /\ \E r \in requests :
       /\ r.conn = conn /\ r.op = "addToFavorites"
       /\ requests' = requests \ {r}
       /\ IF CastObjectId(r.propertyId) = InvalidId
            THEN /\ last' = Response("addToFavorites", r.caller, InvalidId,
                                     [propertyId |-> r.propertyId], 500, {})
                 /\ UNCHANGED favorites
          ELSE IF Includes(r.favorites, r.propertyId)
            THEN /\ last' = Response("addToFavorites", r.caller, CastObjectId(r.propertyId),
                                     [propertyId |-> r.propertyId], 400, {})
                 /\ UNCHANGED favorites
          ELSE /\ Len(favorites[r.caller]) < MaxFavorites
               /\ favorites' = [favorites EXCEPT
                      ![r.caller] = Append(@, CastObjectId(r.propertyId))]
               /\ last' = Response("addToFavorites", r.caller, CastObjectId(r.propertyId),
                                   [propertyId |-> r.propertyId], 200, {})

\* the overlapping requests of one user, and of a request without a token
SpecFavoritesRace ==
  Init /\ [][
      \/ \E c \in {Anon, 2}, n \in Connections, p \in IdParams :
            addToFavorites_findById(c, n, p)
      \/ \E n \in Connections : addToFavorites_save(n)
      \/ \E c \in {Anon, 2}, p \in IdParams : removeFromFavorites(c, p)
  ]_vars

\* ----------------------------------------------- overlapping moderation
\* document.save(): the update sets the paths whose assigned value differs
\* from the value the handler read, on the document as it is stored now
SaveModified(stored, read, assigned) ==
  [f \in DOMAIN stored |-> IF assigned[f] # read[f] THEN assigned[f] ELSE stored[f]]

\* approveProperty up to property.save(): the guards have passed on the
\* document as read and the assignments are made in memory
approveProperty_findById(caller, conn, id) ==
  /\ \A r \in requests : r.conn # conn
  /\ UNCHANGED <<users, agentVars, catalogVars, identityVars, favorites, messages>>
  /\ IF ~protect(caller)
       THEN last' = Reply("approveProperty", caller, id, 401) /\ UNCHANGED requests
     ELSE IF ~authorize(caller, {"admin"})
       THEN last' = Reply("approveProperty", caller, id, 403) /\ UNCHANGED requests
     ELSE IF ~Exists(id)
       THEN last' = Reply("approveProperty", caller, id, 404) /\ UNCHANGED requests
     ELSE IF AlreadyApproved(properties[id])
       THEN last' = Reply("approveProperty", caller, id, 400) /\ UNCHANGED requests
     ELSE /\ requests' = requests \cup
                 {[op |-> "approveProperty", caller |-> caller, conn |-> conn, id |-> id,
                   read |-> properties[id],
                   assigned |-> StrictPersist(ApproveAssign(properties[id], caller))]}
          /\ UNCHANGED last

\* rejectProperty up to property.save()
rejectProperty_findById(caller, conn, id, reason) ==
  /\ \A r \in requests : r.conn # conn
  /\ UNCHANGED <<users, agentVars, catalogVars, identityVars, favorites, messages>>
  /\ IF ~protect(caller)
       THEN last' = Response("rejectProperty", caller, id, reason, 401, {}) /\ UNCHANGED requests
     ELSE IF ~authorize(caller, {"admin"})
       THEN last' = Response("rejectProperty", caller, id, reason, 403, {}) /\ UNCHANGED requests
     ELSE IF ReasonThrows(reason)
       THEN last' = Response("rejectProperty", caller, id, reason, 500, {}) /\ UNCHANGED requests
     ELSE IF ReasonMissing(reason)
       THEN last' = Response("rejectProperty", caller, id, reason, 400, {}) /\ UNCHANGED requests
     ELSE IF ~Exists(id)
       THEN last' = Response("rejectProperty", caller, id, reason, 404, {}) /\ UNCHANGED requests
     ELSE IF AlreadyRejected(properties[id])
       THEN last' = Response("rejectProperty", caller, id, reason, 400, {}) /\ UNCHANGED requests
     ELSE /\ requests' = requests \cup
                 {[op |-> "rejectProperty", caller |-> caller, conn |-> conn, id |-> id,
                   read |-> properties[id],
                   assigned |-> StrictPersist(RejectAssign(properties[id], caller, reason))]}
          /\ UNCHANGED last

\* property.save() and the response, of either handler
property_save(conn) ==
  /\ UNCHANGED <<users, agentVars, nextPropId, identityVars, favorites, messages>>
  /\ \E r \in requests :
       /\ r.conn = conn /\ r.op \in {"approveProperty", "rejectProperty"}
       /\ requests' = requests \ {r}
       /\ properties' = [properties EXCEPT
             ![r.id] = SaveModified(@, r.read, r.assigned)]
       /\ last' = Reply(r.op, r.caller, r.id, 200)

SpecModerationRace ==
  Init /\ [][
      \/ \E c \in Callers : createProperty(c, NoBody, TRUE)
      \/ \E c \in Callers, n \in Connections, i \in PropIds : approveProperty_findById(c, n, i)
      \/ \E c \in Callers, n \in Connections, i \in PropIds, r \in ReasonInputs :
            rejectProperty_findById(c, n, i, r)
      \/ \E n \in Connections : property_save(n)
  ]_vars

\* ------------------------------------------------- roles and administrators
\* the handlers that create accounts or write role and isActive, with every
\* caller; the roles named are those that make or unmake an admin
SpecAccounts ==
  InitAccounts /\ [][
      \/ \E role \in {None, "admin"} :
            register(Addresses[nextUserId], None, "secret", role, TRUE)
      \/ \E c \in Callers, u \in UserIds, b \in UserUpdateBodies : updateUser(c, u, b)
      \/ \E c \in Callers, u \in UserIds, role \in {"user", "admin"} :
            updateUserRole(c, u, role)
      \/ \E c \in Callers, u \in UserIds, b \in BOOLEAN : updateUserStatus(c, u, b)
      \/ \E c \in Callers, u \in UserIds : deleteUser(c, u)
      \/ \E c \in Callers, u \in UserIds : admin_deleteUser(c, u)
  ]_vars

\* ---------------------------------------------------- overlapping reviews
\* addAgentReview up to agent.save(): the guards have passed on the document
\* as read, the review is pushed in memory
addAgentReview_findById(caller, conn, id, rating) ==
  /\ \A r \in requests : r.conn # conn
  /\ UNCHANGED <<users, catalogVars, agentVars, identityVars, favorites, messages>>
  /\ IF ~protect(caller)
       THEN /\ last' = Response("addAgentReview", caller, id, Num(rating), 401, {})
            /\ UNCHANGED requests
     ELSE IF ~AgentExists(id)
       THEN /\ last' = Response("addAgentReview", caller, id, Num(rating), 404, {})
            /\ UNCHANGED requests
     ELSE IF HasReviewed(agents[id], caller)
       THEN /\ last' = Response("addAgentReview", caller, id, Num(rating), 400, {})
            /\ UNCHANGED requests
     ELSE IF ~ValidAgent(PushReview(agents[id], caller, rating))
       THEN /\ last' = Response("addAgentReview", caller, id, Num(rating), 500, {})
            /\ UNCHANGED requests
     ELSE /\ requests' = requests \cup
                 {[op |-> "addAgentReview", caller |-> caller, conn |-> conn, id |-> id,
                   rating |-> rating, read |-> agents[id],
                   pushed |-> PushReview(agents[id], caller, rating)]}
          /\ UNCHANGED last

\* agent.save() and the response: the pre-save hook computes ratings from the
\* reviews in memory; the update sends the pushed review as a $push on the
\* stored array and sets the ratings paths that differ from the values read
addAgentReview_save(conn) ==
  /\ UNCHANGED <<users, catalogVars, identityVars, favorites, messages>>
  /\ \E r \in requests :
       /\ r.conn = conn /\ r.op = "addAgentReview"
       /\ CanPush(r.id)
       /\ requests' = requests \ {r}
       /\ agents' = [agents EXCEPT
             ![r.id].reviews = Append(@, r.pushed.reviews[Len(r.pushed.reviews)]),
             ![r.id].ratings = SaveModified(@, r.read.ratings, PreSave(r.pushed).ratings)]
       /\ last' = Response("addAgentReview", r.caller, r.id, Num(r.rating), 201, {})

SpecReviewRace ==
  Init /\ [][
      \/ \E c \in Callers : CanCreateAgent /\ requestAgentRegistration(c)
      \/ \E c \in Callers, n \in Connections, a \in AgentIds, r \in RatingInputs :
            addAgentReview_findById(c, n, a, r)
      \/ \E n \in Connections : addAgentReview_save(n)
  ]_vars

\* ---------------------------------------------------------- contact reply
\* Message.findById: a deleted document keeps its place in `messages` with
\* status deleted, so that no id is used twice
MessageExists(id) ==
  /\ id \in 1..Len(messages)
  /\ messages[id].status # "deleted"

\* Message.findOne({ _id, 'metadata.source': 'contact_form' })
IsContactMessage(id) ==
  /\ MessageExists(id)
  /\ messages[id].metadata.source = "contact_form"

\* the document replyToContact hands to Message.create; `to` is the path that
\* createContact fills with adminUser._id and populates as a User reference,
\* so the sender's email is cast to ObjectId
ReplyData(caller, id, text) ==
  [from |-> caller,
   to |-> CastObjectId(messages[id].email),
   message |-> Str(<<text>>),
   email |-> messages[id].email,
   status |-> "sent",
   metadata |-> [source |-> "admin_reply", replyTo |-> id]]

\* POST /api/contact/:id/reply
replyToContact(caller, id, text) ==
  /\ UNCHANGED <<users, catalogVars, agentVars, identityVars, favorites, requests>>
  /\ IF ~protect(caller)
       THEN /\ last' = Reply("replyToContact", caller, id, 401)
            /\ UNCHANGED messages
     ELSE IF ~authorize(caller, {"admin"})
       THEN /\ last' = Reply("replyToContact", caller, id, 403)
            /\ UNCHANGED messages
     ELSE IF ~IsContactMessage(id)
       THEN /\ last' = Reply("replyToContact", caller, id, 404)
            /\ UNCHANGED messages
     ELSE IF ReplyData(caller, id, text).to = InvalidId
       THEN /\ last' = Reply("replyToContact", caller, id, 500)
            /\ UNCHANGED messages
     ELSE /\ Len(messages) < MaxMessages
          /\ messages' = Append([messages EXCEPT ![id].status = "replied"],
                                ReplyData(caller, id, text))
          /\ last' = Reply("replyToContact", caller, id, 200)

\* -------------------------------------------------------------- inquiries
\* POST /api/messages; the body's name and subject are not tracked. The
\* document has no sender, no recipient and no metadata
createMessage(body) ==
  /\ UNCHANGED <<users, catalogVars, agentVars, identityVars, favorites, requests>>
  /\ IF ~Has(body, "email") \/ ~Has(body, "message")
       THEN /\ last' = Response("createMessage", Anon, 0, body, 400, {})
            /\ UNCHANGED messages
     ELSE /\ Len(messages) < MaxMessages
          /\ messages' = Append(messages,
               [MessageData(body, NoUser) EXCEPT !.metadata.source = None])
          /\ last' = Response("createMessage", Anon, 0, body, 201, {})

\* GET /api/messages: the router runs no middleware before the handler
getAllMessages(caller) ==
  /\ UNCHANGED <<users, catalogVars, agentVars, identityVars, otherVars>>
  /\ last' = Response("getAllMessages", caller, 0, Undefined, 200,
                      {id \in 1..Len(messages) : MessageExists(id)})

\* GET /api/messages/:id
getMessageById(caller, id) ==
  /\ UNCHANGED <<users, catalogVars, agentVars, identityVars, otherVars>>
  /\ IF ~MessageExists(id)
       THEN last' = Reply("getMessageById", caller, id, 404)
       ELSE last' = Response("getMessageById", caller, id, Undefined, 200, {id})

\* DELETE /api/messages/:id
deleteMessage(caller, id) ==
  /\ UNCHANGED <<users, catalogVars, agentVars, identityVars, favorites, requests>>
  /\ IF ~MessageExists(id)
       THEN /\ last' = Reply("deleteMessage", caller, id, 404)
            /\ UNCHANGED messages
     ELSE /\ messages' = [messages EXCEPT ![id].status = "deleted"]
          /\ last' = Reply("deleteMessage", caller, id, 200)

SpecMessages ==
  Init /\ [][
      \/ \E b \in ContactBodies : createContact(b)
      \/ \E c \in Callers, id \in 1..MaxMessages, text \in {"thanks", "noted"} :
           replyToContact(c, id, text)
      \/ \E b \in ContactBodies : createMessage(b)
      \/ \E c \in Callers : getAllMessages(c)
      \/ \E c \in Callers, id \in 1..MaxMessages : getMessageById(c, id)
      \/ \E c \in Callers, id \in 1..MaxMessages : deleteMessage(c, id)
  ]_vars

\* ---------------------------------------------------------- view counter
\* the GET routes of the property router that take one path segment, in the
\* order the router registers them, each with the handler that answers
GetRoutes ==
  <<[path |-> "featured", handler |-> "getFeaturedProperties"],
    [path |-> "my", handler |-> "getMyProperties"],
    [path |-> "search", handler |-> "searchProperties"],
    [path |-> ":id", handler |-> "getProperty"],
    [path |-> "category-counts", handler |-> "getCategoryCounts"],
    [path |-> "locations", handler |-> "getUniqueLocations"]>>

\* the router takes the first registered route that matches; a parameter
\* matches any segment
Dispatch(segment) ==
  LET Matches(i) == GetRoutes[i].path \in {":id", segment}
  IN  GetRoutes[CHOOSE i \in 1..Len(GetRoutes) :
                  Matches(i) /\ \A j \in 1..(i - 1) : ~Matches(j)].handler

\* the counter written from a value read before other increments
IncViews_FromStaleRead(doc) == [doc EXCEPT !.views = 1]

\* the counter moved by two
IncViews_ByTwo(doc) == [doc EXCEPT !.views = @ + 2]

\* { $inc: { views: 1 } }: one atomic update of the stored counter
IncViews(doc) == [doc EXCEPT !.views = @ + 1]

\* GET /api/properties/<segment> up to next(): the middleware of the route.
\* Each connection carries one request. threw: the update rejected (always
\* for a segment that is no ObjectId); updated: the update changed a document
incrementViews(conn, segment, failed) ==
  /\ \A r \in requests : r.conn # conn
  /\ Dispatch(segment) = "getProperty"
  /\ UNCHANGED <<users, agentVars, nextPropId, identityVars, favorites, messages, last>>
  /\ LET id == CastObjectId(segment)
         threw == failed \/ id = InvalidId
     IN  /\ properties' = IF ~threw /\ Exists(id)
                            THEN [properties EXCEPT ![id] = IncViews(@)]
                            ELSE properties
         /\ requests' = requests \cup
               {[op |-> "getProperty", conn |-> conn, path |-> segment,
                 threw |-> threw, updated |-> ~threw /\ Exists(id)]}

\* the handler the middleware hands over to: getProperty answers the request
getProperty_next(conn) ==
  /\ UNCHANGED <<users, agentVars, catalogVars, identityVars, favorites, messages>>
  /\ \E r \in requests :
       /\ r.conn = conn /\ r.op = "getProperty"
       /\ requests' = (requests \ {r}) \cup {[r EXCEPT !.op = "served"]}
       /\ last' = Response("getProperty", Anon, CastObjectId(r.path), r,
                           IF CastObjectId(r.path) = InvalidId THEN 500
                           ELSE IF FindById(CastObjectId(r.path)) = {} THEN 404
                           ELSE 200,
                           FindById(CastObjectId(r.path)))

SpecViews ==
  Init /\ [][
      \/ \E c \in Callers : createProperty(c, NoBody, TRUE)
      \/ \E n \in Connections, seg \in IdParams \cup {"category-counts", "locations"},
            failed \in BOOLEAN : incrementViews(n, seg, failed)
      \/ \E n \in Connections : getProperty_next(n)
  ]_vars

\* ======================================================================
\* Properties checked
\* ======================================================================
Authenticated(c) == c \in DOMAIN users /\ users[c].isActive

ActingAdmin(c) == Authenticated(c) /\ users[c].role = "admin"

Visible(doc) == doc.isPublished \/ doc.approvalStatus = "approved"

\* C1: a property is returned by a public, unauthenticated read (list,
\* fetch-by-id, featured, by-agent, by-type, search) if and only if it is
\* published or approved.
C1_VisibleIffPublishedOrApproved ==
  /\ (last.op \in PublicReadOps /\ last.status = 200)
       => \A p \in last.result : Visible(properties[p])
  /\ \A p \in DOMAIN properties : Visible(properties[p]) => p \in PublicList

\* C2: the approvalStatus of an existing property changes only in a step of
\* approveProperty or rejectProperty made by an admin.
C2_StatusChangesOnlyByAdminModeration ==
  [][\A p \in DOMAIN properties \cap DOMAIN properties' :
       properties'[p].approvalStatus # properties[p].approvalStatus
         => /\ last'.op \in {"approveProperty", "rejectProperty"}
            /\ ActingAdmin(last'.caller)]_vars

\* C3: a property stored by createProperty is pending, unpublished and owned
\* by the caller, whatever the body carried.
C3_CreateForcesPendingUnpublished ==
  (last.op = "createProperty" /\ last.status = 201)
    => /\ Exists(last.id)
       /\ properties[last.id].approvalStatus = "pending"
       /\ properties[last.id].isPublished = FALSE
       /\ properties[last.id].owner = last.caller

\* a create that succeeded although the body asked for an approved,
\* published listing owned by somebody else
C3_Witness ==
  /\ last.op = "createProperty" /\ last.status = 201
  /\ Has(last.arg, "approvalStatus") /\ last.arg.approvalStatus # "pending"
  /\ Exists(last.id)

\* C4: approve by an admin on an existing property that is not approved
\* succeeds and stores approvalStatus = approved, isPublished = true,
\* approvedBy = the admin and approvedAt; the public list then holds it.
C4_ApproveStoresStatusAndAudit ==
  [][(/\ last'.op = "approveProperty"
      /\ ActingAdmin(last'.caller)
      /\ Exists(last'.id)
      /\ properties[last'.id].approvalStatus # "approved")
       => /\ last'.status = 200
          /\ properties'[last'.id].approvalStatus = "approved"
          /\ properties'[last'.id].isPublished = TRUE
          /\ properties'[last'.id].approvedBy = last'.caller
          /\ properties'[last'.id].approvedAt # None
          /\ last'.id \in PublicList']_vars

\* C5: approve on an approved property and reject on a rejected property
\* answer 400 and leave the stored properties as they were.
C5_TransitionIntoCurrentStateRejected ==
  [][/\ (/\ last'.op = "approveProperty"
          /\ ActingAdmin(last'.caller)
          /\ Exists(last'.id)
          /\ properties[last'.id].approvalStatus = "approved")
           => (last'.status = 400 /\ properties' = properties)
     /\ (/\ last'.op = "rejectProperty"
          /\ ActingAdmin(last'.caller)
          /\ last'.arg.t # "number"
          /\ Exists(last'.id)
          /\ properties[last'.id].approvalStatus = "rejected")
           => (last'.status = 400 /\ properties' = properties)]_vars

\* a second approve of an approved property was answered 400
C5_Witness ==
  /\ last.op = "approveProperty" /\ last.status = 400
  /\ Exists(last.id) /\ properties[last.id].approvalStatus = "approved"

\* a reason that is absent, empty or made of whitespace only
BlankReason(r) ==
  \/ r.t = "undefined"
  \/ r.t = "string" /\ \A i \in 1..Len(r.s) : r.s[i] = " "

\* C6: reject with a blank reason answers 400 and changes nothing; reject
\* with a reason on a property that is not rejected stores
\* approvalStatus = rejected, the reason and isPublished = false.
C6_RejectNeedsReasonAndStoresIt ==
  [][(last'.op = "rejectProperty" /\ ActingAdmin(last'.caller))
       => /\ BlankReason(last'.arg)
               => (last'.status = 400 /\ properties' = properties)
          /\ (/\ last'.arg.t = "string" /\ ~BlankReason(last'.arg)
              /\ Exists(last'.id)
              /\ properties[last'.id].approvalStatus # "rejected")
               => /\ last'.status = 200
                  /\ properties'[last'.id].approvalStatus = "rejected"
                  /\ properties'[last'.id].rejectionReason = last'.arg
                  /\ properties'[last'.id].isPublished = FALSE]_vars

ModerationEdges ==
  {<<"pending", "approved">>, <<"rejected", "approved">>,
   <<"pending", "rejected">>, <<"approved", "rejected">>}

\* C7: an admin approve succeeds from pending and from rejected, an admin
\* reject with a reason succeeds from pending and from approved, and
\* approvalStatus moves along no other edge and by no other operation.
C7_OnlyModerationEdges ==
  [][/\ (/\ last'.op = "approveProperty"
          /\ ActingAdmin(last'.caller)
          /\ Exists(last'.id)
          /\ properties[last'.id].approvalStatus \in {"pending", "rejected"})
           => (last'.status = 200 /\ properties'[last'.id].approvalStatus = "approved")
     /\ (/\ last'.op = "rejectProperty"
          /\ ActingAdmin(last'.caller)
          /\ last'.arg.t = "string" /\ ~BlankReason(last'.arg)
          /\ Exists(last'.id)
          /\ properties[last'.id].approvalStatus \in {"pending", "approved"})
           => (last'.status = 200 /\ properties'[last'.id].approvalStatus = "rejected")
     /\ \A p \in DOMAIN properties \cap DOMAIN properties' :
           properties'[p].approvalStatus # properties[p].approvalStatus
             => /\ <<properties[p].approvalStatus, properties'[p].approvalStatus>>
                     \in ModerationEdges
                /\ last'.op \in {"approveProperty", "rejectProperty"}]_vars

\* C8: updateProperty and deleteProperty answer 404 for an id that does not
\* exist, answer 403 and change nothing for a caller who is neither the owner
\* nor an admin, and change the collection only for the owner or an admin.
C8_UpdateDeleteOwnerOrAdminOnly ==
  [][(last'.op \in {"updateProperty", "deleteProperty"} /\ Authenticated(last'.caller))
       => /\ ~Exists(last'.id)
               => (last'.status = 404 /\ properties' = properties)
          /\ (/\ Exists(last'.id)
              /\ properties[last'.id].owner # last'.caller
              /\ users[last'.caller].role # "admin")
               => (last'.status = 403 /\ properties' = properties)
          /\ properties' # properties
               => /\ Exists(last'.id)
                  /\ \/ properties[last'.id].owner = last'.caller
                     \/ users[last'.caller].role = "admin"]_vars

\* a delete by a user who neither owns the listing nor is an admin was
\* answered 403 and the listing is still there
C8_Witness ==
  /\ last.op = "deleteProperty" /\ last.status = 403
  /\ Exists(last.id)
  /\ properties[last.id].owner # last.caller

Mean(reviews) ==
  IF Len(reviews) = 0 THEN Quot(0, 1) ELSE Quot(SumRatings(reviews), Len(reviews))

RatingsDerived(doc) ==
  /\ doc.ratings.count = Len(doc.reviews)
  /\ QuotEq(doc.ratings.average, Mean(doc.reviews))

PersistsAgentChange ==
  /\ last.op \in {"addAgentReview", "updateAgentReview", "deleteAgentReview",
                  "updateAgent", "createAgent", "requestAgentRegistration"}
  /\ last.status \in {200, 201}
  /\ AgentExists(last.id)

\* C9: after every completed operation that persists a change to an agent,
\* ratings.count is the number of its reviews and ratings.average is the mean
\* of their ratings (0 when there are none).
C9_RatingsDerivedFromReviews ==
  PersistsAgentChange => RatingsDerived(agents[last.id])

ReviewsBy(doc, u) == {i \in 1..Len(doc.reviews) : doc.reviews[i].user = u}

\* C10: addAgentReview by a user who has not reviewed the agent succeeds and
\* adds exactly one review; the same call repeated right after it answers 400
\* and changes nothing.
C10_SecondReviewRejected ==
  [][/\ (/\ last'.op = "addAgentReview"
          /\ Authenticated(last'.caller)
          /\ AgentExists(last'.id)
          /\ ReviewsBy(agents[last'.id], last'.caller) = {}
          /\ last'.arg.s[1] >= 1 /\ last'.arg.s[1] <= 5)
           => /\ last'.status = 201
              /\ Len(agents'[last'.id].reviews) = Len(agents[last'.id].reviews) + 1
              /\ Cardinality(ReviewsBy(agents'[last'.id], last'.caller)) = 1
     /\ (/\ last.op = "addAgentReview" /\ last.status = 201
          /\ last'.op = "addAgentReview"
          /\ last'.caller = last.caller /\ last'.id = last.id)
           => (last'.status = 400 /\ agents' = agents)]_vars

\* the second of two reviews by the same user of the same agent was answered
\* 400 and the agent holds one review by that user
C10_Witness ==
  /\ last.op = "addAgentReview" /\ last.status = 400
  /\ AgentExists(last.id)
  /\ Cardinality(ReviewsBy(agents[last.id], last.caller)) = 1

ProfilesOf(coll, u) == {a \in DOMAIN coll : coll[a].user = u}

\* C11: at most one Agent record references any user id, and a
\* requestAgentRegistration that answered 201 left its caller with exactly one.
C11_AtMostOneProfilePerUser ==
  /\ \A u \in UserIds : Cardinality(ProfilesOf(agents, u)) <= 1
  /\ (last.op = "requestAgentRegistration" /\ last.status = 201)
       => Cardinality(ProfilesOf(agents, last.caller)) = 1

\* C12: an unverified profile becomes verified, and a user with role user gets
\* role agent, only in a step whose caller is an admin.
C12_ElevationOnlyByAdmin ==
  [][/\ \A a \in DOMAIN agents \cap DOMAIN agents' :
           (~agents[a].isVerified /\ agents'[a].isVerified) => ActingAdmin(last'.caller)
     /\ \A u \in DOMAIN users \cap DOMAIN users' :
           (users[u].role = "user" /\ users'[u].role = "agent")
             => ActingAdmin(last'.caller)]_vars

C14_RoleChangeCreatesOneProfile ==
  [][(/\ last'.op = "updateUserRole"
      /\ last'.arg.role = "agent"
      /\ ActingAdmin(last'.caller)
      /\ last'.id # last'.caller
      /\ last'.id \in DOMAIN users)
       => /\ last'.status = 200
          /\ ProfilesOf(agents, last'.id) = {}
               => /\ Cardinality(ProfilesOf(agents', last'.id)) = 1
                  /\ \A a \in ProfilesOf(agents', last'.id) : ~agents'[a].isVerified
                  /\ \A a \in DOMAIN agents : a \in DOMAIN agents' /\ agents'[a] = agents[a]
          /\ ProfilesOf(agents, last'.id) # {} => agents' = agents]_vars

\* updateUserRole(U, agent) answered 200 and U has one profile
C14_Witness ==
  /\ last.op = "updateUserRole" /\ last.status = 200
  /\ last.arg.role = "agent"
  /\ Cardinality(ProfilesOf(agents, last.id)) = 1
  /\ users[last.id].role = "agent"

\* C16: an admin who deletes another, existing user through either delete
\* route gets 200 and no Agent record references the user afterwards; an
\* admin who names their own id gets 400 and nothing is deleted.
C16_DeleteUserCascades ==
  [][(last'.op \in {"deleteUser", "admin_deleteUser"} /\ ActingAdmin(last'.caller))
       => /\ last'.id = last'.caller
               => (last'.status = 400 /\ users' = users /\ agents' = agents)
          /\ (last'.id # last'.caller /\ last'.id \in DOMAIN users)
               => /\ last'.status = 200
                  /\ last'.id \notin DOMAIN users'
                  /\ ProfilesOf(agents', last'.id) = {}]_vars

Occurrences(list, x) == Cardinality({i \in 1..Len(list) : list[i] = x})

C17_RegisterRejectsTakenEmailOrMobile ==
  [][(/\ last'.op = "register"
      /\ \/ last'.arg.email # None /\ UsersWithEmail(last'.arg.email) # {}
         \/ last'.arg.mobile # None /\ UsersWithPhone(last'.arg.mobile) # {})
       => (last'.status = 400 /\ users' = users /\ credentials' = credentials)]_vars

\* C18: a login answers 200 only for an account that matches the given email
\* or mobile, is active and holds the given password; a login that resolves
\* to an inactive account answers 401 whatever the password, and one that
\* resolves to an active account with its password answers 200.
C18_LoginNeedsActiveAccountAndPassword ==
  last.op = "login"
    => /\ last.status = 200
            => /\ last.id \in ExistingUser(last.arg.email, last.arg.mobile)
               /\ users[last.id].isActive
               /\ credentials[last.id].password = Bcrypt(last.arg.password)
       /\ last.id \in DOMAIN users
            => /\ ~users[last.id].isActive => last.status = 401
               /\ (/\ users[last.id].isActive
                   /\ credentials[last.id].password = Bcrypt(last.arg.password))
                    => last.status = 200

\* a login with the right password for a deactivated account was answered 401
C18_Witness ==
  /\ last.op = "login" /\ last.status = 401
  /\ last.id \in DOMAIN users
  /\ ~users[last.id].isActive
  /\ credentials[last.id].password = Bcrypt(last.arg.password)

\* C19: a resetPassword answers 200 only for a token whose hash an account
\* stores with an expiry still ahead, and then replaces that account's
\* password and clears its hash and expiry, so that no account stores the
\* hash afterwards; with no such account it answers 400; whenever it does
\* not answer 200 the stored credentials stay as they were; and the token of
\* a successful reset, presented again, is answered 400.
C19_ResetTokenIsSingleUse ==
  [][(last'.op = "resetPassword" /\ clock' = clock)
       => /\ last'.status = 200
               => /\ \E u \in ResetHolders(last'.arg.token) :
                       credentials' = [credentials EXCEPT
                          ![u].password = Bcrypt(last'.arg.password),
                          ![u].reset = NoReset]
                  /\ \A u \in DOMAIN users :
                       credentials'[u].reset.token # Sha256(last'.arg.token)
          /\ ResetHolders(last'.arg.token) = {} => last'.status = 400
          /\ last'.status # 200 => credentials' = credentials
          /\ (/\ last.op = "resetPassword"
              /\ last.status = 200
              /\ last.arg.token = last'.arg.token)
               => last'.status = 400]_vars

\* after a reset that set the password "changed", a reset that presents an
\* issued token is answered 400
C19_Witness ==
  /\ last.op = "resetPassword" /\ last.status = 400
  /\ last.arg.token <= issued
  /\ last.arg.password = "again"
  /\ \E u \in DOMAIN users : credentials[u].password = Bcrypt("changed")

\* C20: a createContact while no user has role admin answers 500 and stores
\* no message; one that answers 201 appends exactly one message, addressed to
\* a user with role admin, with status sent and metadata.source contact_form;
\* with an admin and a message text it answers 201; any other answer stores
\* nothing.
C20_ContactNeedsAdminRecipient ==
  [][last'.op = "createContact"
       => /\ AdminUsers = {} => (last'.status = 500 /\ messages' = messages)
          /\ last'.status = 201
               => /\ Len(messages') = Len(messages) + 1
                  /\ SubSeq(messages', 1, Len(messages)) = messages
                  /\ messages'[Len(messages')].to \in DOMAIN users
                  /\ users[messages'[Len(messages')].to].role = "admin"
                  /\ messages'[Len(messages')].status = "sent"
                  /\ messages'[Len(messages')].metadata.source = "contact_form"
          /\ (AdminUsers # {} /\ Has(last'.arg, "message")) => last'.status = 201
          /\ last'.status # 201 => messages' = messages]_vars

\* a createContact answered 500 with no admin left, after one that had an
\* admin stored its message
C20_Witness ==
  /\ last.op = "createContact" /\ last.status = 500
  /\ \A u \in DOMAIN users : users[u].role # "admin"
  /\ Len(messages) = 1
  /\ messages[1].status = "sent"

\* C21: a reply by an admin to an id that names no contact-form message
\* answers 404 and stores nothing; a reply to a contact-form message answers
\* 200, appends exactly one message from the admin that carries the sender's
\* email and metadata.replyTo = id, and sets the original's status to replied.
C21_ReplyStoresOneLinkedMessage ==
  [][(last'.op = "replyToContact" /\ ActingAdmin(last'.caller))
       => IF IsContactMessage(last'.id)
            THEN /\ last'.status = 200
                 /\ Len(messages') = Len(messages) + 1
                 /\ messages'[Len(messages')].from = last'.caller
                 /\ messages'[Len(messages')].email = messages[last'.id].email
                 /\ messages'[Len(messages')].metadata.replyTo = last'.id
                 /\ messages'[last'.id].status = "replied"
            ELSE last'.status = 404 /\ messages' = messages]_vars

\* C23: a request to list, fetch or delete inquiry messages whose caller is
\* not an admin reads no message and deletes none.
C23_MessageRoutesAdminOnly ==
  [][(/\ last'.op \in {"getAllMessages", "getMessageById", "deleteMessage"}
      /\ ~ActingAdmin(last'.caller))
       => (last'.result = {} /\ messages' = messages)]_vars

\* C22: every GET of /:id reaches getProperty whether or not the increment
\* threw; getProperty answers 200 with the property when it exists and 404
\* when it does not, whatever the increment did; and an increment that did
\* not throw on an existing property moves its views by exactly 1 and
\* touches nothing else.
C22_IncrementNeverFailsTheRead ==
  [][/\ \A r \in requests' \ requests :
          r.op = "getProperty"
            => /\ r.updated
                    => properties' = [properties EXCEPT
                         ![CastObjectId(r.path)].views = @ + 1]
               /\ ~r.updated => properties' = properties
               /\ (~r.threw /\ Exists(CastObjectId(r.path))) => r.updated
     /\ (last'.op = "getProperty" /\ last' # last /\ last'.id # InvalidId)
          => /\ Exists(last'.id) => (last'.status = 200 /\ last'.result = {last'.id})
             /\ ~Exists(last'.id) => last'.status = 404]_vars

\* an existing property was served after its increment threw
C22_Witness ==
  /\ last.op = "getProperty" /\ last.status = 200
  /\ last.arg.threw
  /\ last.result = {last.id}

\* C24: a GET of /api/properties/category-counts is answered by
\* getCategoryCounts and one of /api/properties/locations by
\* getUniqueLocations.
C24_NamedRoutesReachTheirHandlers ==
  /\ \A r \in requests : r.path \notin {"category-counts", "locations"}
  /\ last.op = "getProperty" => last.arg.path \notin {"category-counts", "locations"}

\* C30: the views of a property equal the number of fetches of it whose
\* increment went through, in every interleaving of the fetches, and no step
\* lowers a counter.
C30_ViewsCountFetches ==
  /\ [](\A p \in DOMAIN properties :
          properties[p].views =
            Cardinality({r \in requests : r.updated /\ CastObjectId(r.path) = p}))
  /\ [][\A p \in DOMAIN properties \cap DOMAIN properties' :
          properties'[p].views >= properties[p].views]_vars

\* two fetches of one property are both past their increment, neither is
\* answered yet, and the counter stands at 2
C30_Witness ==
  \E p \in DOMAIN properties :
    /\ properties[p].views = 2
    /\ Cardinality({r \in requests : r.op = "getProperty" /\ r.updated
                                      /\ CastObjectId(r.path) = p}) = 2

\* C25: no user's favorites hold a property twice, in any reachable state,
\* requests of one user that overlap included.
C25_FavoritesAreASet ==
  \A u \in DOMAIN favorites : \A p \in 1..NumProps :
    Occurrences(favorites[u], p) <= 1

\* C26: whenever no approve or reject is in flight, a rejected property is
\* unpublished and an approved property is published.
C26_StatusAndPublicationAgree ==
  requests = {}
    => \A p \in DOMAIN properties :
         /\ properties[p].approvalStatus = "rejected" => ~properties[p].isPublished
         /\ properties[p].approvalStatus = "approved" => properties[p].isPublished

\* C27: a user holds role admin after a step only if the user held it before
\* the step or the step's caller is an admin.
C27_NoSelfMadeAdmin ==
  [][\A u \in DOMAIN users' :
        (users'[u].role = "admin" /\ ~(u \in DOMAIN users /\ users[u].role = "admin"))
          => ActingAdmin(last'.caller)]_vars

\* C28: a step of deleteUser (either controller), updateUserRole,
\* updateUserStatus or updateUser that starts with an active admin ends with
\* an active admin.
C28_AnActiveAdminRemains ==
  [][(/\ last'.op \in {"deleteUser", "admin_deleteUser", "updateUserRole",
                       "updateUserStatus", "updateUser"}
      /\ \E u \in DOMAIN users : users[u].role = "admin" /\ users[u].isActive)
       => \E u \in DOMAIN users' : users'[u].role = "admin" /\ users'[u].isActive]_vars

\* C29: once no addReview is in flight, an agent whose stored reviews are by
\* different users has ratings.count equal to the number of stored reviews and
\* ratings.average equal to their mean: two overlapping reviews by two users
\* that both answered 201 have raised the count by 2.
C29_RatingsCoverAllReviews ==
  requests = {}
    => \A a \in DOMAIN agents :
         (\A i, j \in 1..Len(agents[a].reviews) :
             i # j => agents[a].reviews[i].user # agents[a].reviews[j].user)
           => /\ agents[a].ratings.count = Len(agents[a].reviews)
              /\ agents[a].ratings.average = Mean(agents[a].reviews)

====
